---- MODULE Spec2Model ----
(***************************************************************************)
(* Model of the rule-based decision engine of the Isaac agent              *)
(* (src/agent/src/rules_engine.py), of the Action value it returns         *)
(* (src/agent/src/action_writer.py), and of the agent's main loop          *)
(* (src/agent/agent.py) with the state reader and the action writer it     *)
(* drives (src/agent/src/state_reader.py, src/agent/src/action_writer.py). *)
(*                                                                         *)
(* Numbers.  Positions and velocities are integers.  A `distance` field    *)
(* holds the snapshot's float distance as an integer count of 1/DistScale  *)
(* game units, so that distances such as 0.5 and 300.5 are representable.  *)
(* Every comparison the code makes between floats is rewritten as the      *)
(* comparison of the exact values, in integers (a division by a positive   *)
(* length is cross-multiplied, a comparison of lengths is squared).  Square*)
(* roots that must be kept are either taken of perfect squares (Sqrt) or   *)
(* carried symbolically (LtRoot).                                          *)
(*                                                                         *)
(* Rounding.  Where the exact values differ, the floats the code computes  *)
(* compare the same way.  Where the exact values are equal and the code    *)
(* reaches them through operations that round (a division by a length that *)
(* is not a power of two, a product with such a quotient), the floats may  *)
(* come out equal or apart in either direction.  The record `rounding`     *)
(* says how each such comparison of a decision comes out; it is an input   *)
(* of the decision, chosen among Roundings(state).  Where the operations   *)
(* on both sides are exact or the same, the comparison is that of the      *)
(* exact values and `rounding` is not consulted.                           *)
(***************************************************************************)
EXTENDS Integers, Sequences, FiniteSets

VARIABLES
    state,          \* the snapshot in hand: run()'s local `state`
    action,         \* the Action last decided: run()'s local `action`
    calls,          \* the sub-components the last decision evaluated
    pc,             \* the position in run()
    at,             \* the position inside the read_state or write_action
                    \* call in progress
    running,        \* IsaacAgent.running
    clock,          \* time.time(), in seconds
    state_file,     \* the state file: None, or its mtime and its contents
    action_file,    \* the action file: None, or the Action it holds
    last_mtime,     \* StateReader.last_mtime
    last_frame,     \* StateReader.last_frame
    cached_state,   \* StateReader._cached_state
    read_errors,    \* StateReader.error_count; ReadErrorLimit stands for
                    \* every count from there on
    read_case,      \* which path the read_state call of this tick took,
                    \* "raised" for a call that an exception left
    mtime,          \* read_state's local `mtime`, while it is in use
    data,           \* read_state's local `data`: the contents loaded from
                    \* the file, as far as _parse_state will take them
    attempt,        \* the last write_action call: its action and its result
    error_count,    \* ActionWriter.error_count; ErrorPrintLimit stands for
                    \* every count from there on
    mode,           \* IsaacAgent.config.MODE, as the value of the AgentMode
    verbose,        \* IsaacAgent.config.VERBOSE
    log_actions,    \* IsaacAgent.config.LOG_ACTIONS
    stdout_open,    \* sys.stdout takes what print() writes
    rounding        \* how the float comparisons of the last decision that
                    \* rounding decides came out

\* the variables of the main loop that a decision does not touch
loopvars ==
    <<at, running, clock, state_file, action_file, last_mtime, last_frame,
      cached_state, read_errors, read_case, mtime, data, attempt,
      error_count, mode, verbose, log_actions, stdout_open>>

vars == <<state, action, calls, pc, rounding, loopvars>>

(***************************************************************************)
(* Program constants.                                                      *)
(***************************************************************************)
DODGE_DISTANCE == 100
AVOID_DISTANCE == 50
ATTACK_RANGE == 300
APPROACH_RANGE == 400

\* config.py: `STATE_TIMEOUT: float = 5.0`, MAX_ENEMIES, MAX_PROJECTILES
STATE_TIMEOUT == 5
MAX_ENEMIES == 20
MAX_PROJECTILES == 30

\* rules_engine.py:88  `dist < 1`
MinDodgeDist == 1
\* rules_engine.py:124 `min_threat_score > 2.0`
ThreatCeiling == 2
\* rules_engine.py:229 `nearest.distance / 200.0`
LeadDivisor == 200
\* the 0.1 of every degenerate-geometry guard, as the fraction EpsNum/EpsDen
EpsNum == 1
EpsDen == 10

\* resolution of the `distance` fields: distance = field / DistScale
DistScale == 2

(***************************************************************************)
(* Values.                                                                 *)
(***************************************************************************)
\* Python's None (an absent snapshot, an absent player, "no result")
None == [is_none |-> TRUE]

Abs(v) == IF v < 0 THEN -v ELSE v

Max(a, b) == IF a > b THEN a ELSE b

Min(a, b) == IF a < b THEN a ELSE b

RECURSIVE Gcd(_, _)
Gcd(a, b) == IF b = 0 THEN a ELSE Gcd(b, a % b)

Lcm(a, b) == (a \div Gcd(a, b)) * b

\* math.sqrt of a perfect square (undefined on anything else)
Sqrt(n) == CHOOSE r \in 0..n : r * r = n

\* n is the square of an integer
IsSquare(n) == \E r \in 0..n : r * r = n

\* n is a power of two: a quotient by n is a float without rounding
RECURSIVE IsPow2(_)
IsPow2(n) == n = 1 \/ (n > 1 /\ n % 2 = 0 /\ IsPow2(n \div 2))

\* sqrt(n2) / den < 0.1, for a squared numerator n2 and a positive den
\* (0.1 < 1, so only n2 < den * den needs the cross-multiplication)
BelowEps(n2, den) ==
    n2 < den * den /\ n2 * EpsDen * EpsDen < EpsNum * EpsNum * den * den

\* sqrt(n2) / den is exactly 1/10, which no float is: the code's `< 0.1`
\* then compares a rounded length with the rounded literal
AtEps(n2, den) ==
    n2 < den * den /\ n2 * EpsDen * EpsDen = EpsNum * EpsNum * den * den

\* `length < 0.1`, where below says how the comparison comes out when the
\* exact length is 1/10
BelowEpsRounded(n2, den, below) == BelowEps(n2, den) \/ (AtEps(n2, den) /\ below)

\* a * sqrt(m) < b * sqrt(n), for m > 0 and n > 0 with no common factor
LtRootReduced(a, m, b, n) ==
    IF a < 0
    THEN b >= 0 \/ a * a * m > b * b * n
    ELSE b > 0 /\ a * a * m < b * b * n

\* a * sqrt(m) < b * sqrt(n), for m > 0 and n > 0; common factors of a and b
\* and of m and n are divided out first, which keeps the squares small
LtRoot(a, m, b, n) ==
    LET g == Gcd(Abs(a), Abs(b))
        h == Gcd(m, n)
    IN  IF g = 0 THEN FALSE
        ELSE LtRootReduced(a \div g, m \div h, b \div g, n \div h)

\* a clamp to the index encoding 0..2 of the three values
ClampIndexed(v) == Max(0, Min(2, v + 1))

\* Action.__post_init__: max(-1, min(1, int(v)))
Clamp(v) == Max(-1, Min(1, v))

\* the Action dataclass; every field defaults to 0 and is clamped
Action(mx, my, sx, sy) ==
    [move_x |-> Clamp(mx), move_y |-> Clamp(my),
     shoot_x |-> Clamp(sx), shoot_y |-> Clamp(sy)]

\* `1 if v > 0 else -1`
Sign1(v) == IF v > 0 THEN 1 ELSE -1

\* a conversion that keeps both axes when |x| = |y|
QuantizeDiagonal(x, y) ==
    IF Abs(x) > Abs(y) THEN <<Sign1(x), 0>>
    ELSE IF Abs(y) > Abs(x) THEN <<0, Sign1(y)>>
    ELSE <<Sign1(x), Sign1(y)>>

\* a conversion in which X also wins when |x| = |y|
QuantizeTieX(x, y) ==
    IF Abs(x) >= Abs(y) THEN <<Sign1(x), 0>> ELSE <<0, Sign1(y)>>

\* the conversion of a continuous vector to a discrete one:
\* `if abs(x) > abs(y): (sign, 0) else: (0, sign)`
Quantize(x, y) ==
    IF Abs(x) > Abs(y) THEN <<Sign1(x), 0>> ELSE <<0, Sign1(y)>>

\* the conversion of a vector whose exact components are x and y and whose
\* floats, when |x| = |y|, have come out with abs(x) > abs(y) if xAbove
QuantizeRounded(x, y, xAbove) ==
    IF Abs(x) = Abs(y) /\ xAbove THEN <<Sign1(x), 0>> ELSE Quantize(x, y)

(***************************************************************************)
(* Rounding: the comparisons of a decision that rounding decides.          *)
(***************************************************************************)
\* no comparison comes out other than the exact values compare
NoRounding ==
    [dot_up |-> {}, score_rank |-> [k \in {} |-> 0], perp_down |-> {},
     avoid_below |-> FALSE, avoid_x |-> FALSE, aim_below |-> {}, aim_x |-> {}]

Range(seq) == {seq[i] : i \in 1..Len(seq)}

(***************************************************************************)
(* Threat Assessor: RulesEngine._dodge_projectiles                         *)
(***************************************************************************)
Speed2(e) == e.vx * e.vx + e.vy * e.vy

\* (dx, dy) = player - projectile, and its squared length
DirX(player, proj) == player.x - proj.x

DirY(player, proj) == player.y - proj.y

DirLen2(player, proj) ==
    DirX(player, proj) * DirX(player, proj) + DirY(player, proj) * DirY(player, proj)

\* player_dir_len
DirLen(player, proj) == Sqrt(DirLen2(player, proj))

\* dot * player_dir_len, where dot = dx_norm * vx + dy_norm * vy
DotNum(player, proj) ==
    DirX(player, proj) * proj.vx + DirY(player, proj) * proj.vy

\* a distance filter that lets every positive distance through
InDodgeRangeAboveZero(proj) ==
    ~ (proj.distance > DODGE_DISTANCE * DistScale \/ proj.distance <= 0)

\* the distance filter of line 88
InDodgeRange(proj) ==
    ~ (proj.distance > DODGE_DISTANCE * DistScale
       \/ proj.distance < MinDodgeDist * DistScale)

\* dx_norm and dy_norm are rounded quotients of different size: the
\* direction is neither on an axis (quotients 0 and 1) nor on a diagonal
\* (two quotients of one size, whose products cancel exactly)
DotInexact(player, proj) ==
    /\ DirX(player, proj) # 0
    /\ DirY(player, proj) # 0
    /\ Abs(DirX(player, proj)) # Abs(DirY(player, proj))

\* the velocity is exactly across the direction to the player, and the
\* float `dot` is a sum of two rounded products
DotTied(player, proj) == DotNum(player, proj) = 0 /\ DotInexact(player, proj)

\* `dot > 0`, the negation of the guard of line 111
DotPositive(player, proj, r) ==
    \/ DotNum(player, proj) > 0
    \/ (DotTied(player, proj) /\ proj \in r.dot_up)

\* the filters of the loop body before the dot product (lines 83-103)
Scanned(player, proj) ==
    /\ proj.is_hostile
    /\ InDodgeRange(proj)
    /\ ~ BelowEps(Speed2(proj), 1)
    /\ ~ BelowEps(DirLen2(player, proj), 1)

\* the filters of the loop body without the `is_hostile` test
CandidateAnyOwner(player, proj, r) ==
    /\ InDodgeRange(proj)
    /\ ~ BelowEps(Speed2(proj), 1)
    /\ ~ BelowEps(DirLen2(player, proj), 1)
    /\ DotPositive(player, proj, r)

\* the projectile survives every `continue` of the loop body (lines 83-112)
Candidate(player, proj, r) ==
    /\ proj.is_hostile
    /\ InDodgeRange(proj)
    /\ ~ BelowEps(Speed2(proj), 1)
    /\ ~ BelowEps(DirLen2(player, proj), 1)
    /\ DotPositive(player, proj, r)

\* threat_score = time_to_impact * (1.0 - dot * 0.5)
\*              = ThreatNum / (ThreatDen * speed)
ThreatNum(player, proj) ==
    proj.distance * (2 * DirLen(player, proj) - DotNum(player, proj))

ThreatDen(player, proj) == 2 * DistScale * DirLen(player, proj)

\* the exact threat_score(p) is below the exact threat_score(q)
ScoreBelow(player, p, q) ==
    LtRoot(ThreatNum(player, p) * ThreatDen(player, q), Speed2(q),
           ThreatNum(player, q) * ThreatDen(player, p), Speed2(p))

\* the exact threat_score(p) is above 2.0, and below it
ScoreAboveCeiling(player, p) ==
    LtRoot(ThreatCeiling * ThreatDen(player, p), Speed2(p),
           ThreatNum(player, p), 1)

ScoreBelowCeiling(player, p) ==
    LtRoot(ThreatNum(player, p), 1,
           ThreatCeiling * ThreatDen(player, p), Speed2(p))

\* the float threat_score is the exact one: the direction is on an axis (dot
\* is a component of the velocity), the speed is an integer, and
\* distance / speed = proj.distance / (DistScale * speed) has a power of two
\* as its denominator
ScoreExact(player, proj) ==
    /\ DirX(player, proj) = 0 \/ DirY(player, proj) = 0
    /\ IsSquare(Speed2(proj))
    /\ IsPow2(Sqrt(Speed2(proj)) \div Gcd(Sqrt(Speed2(proj)), proj.distance))

\* what the float threat_score is computed from: dist, speed and dot.  With
\* the direction on an axis dot is the integer DotNum / DirLen; otherwise it
\* is computed from dx, dy, vx and vy.  Equal keys give equal floats.
ScoreKey(player, proj) ==
    IF DirX(player, proj) = 0 \/ DirY(player, proj) = 0
    THEN <<proj.distance, Speed2(proj), 0, 0, 0,
           DotNum(player, proj) \div DirLen(player, proj)>>
    ELSE <<proj.distance, Speed2(proj), DirX(player, proj), DirY(player, proj),
           proj.vx, proj.vy>>

\* where the float threat_score lies among the floats of the scores that
\* are exactly equal to it: floats compare as these numbers do, and 0 is the
\* exact value itself (of which the ceiling 2.0 and every score computed
\* without rounding are the floats)
ScoreSign(player, proj, r) ==
    IF ScoreExact(player, proj) THEN 0
    ELSE IF ScoreKey(player, proj) \in DOMAIN r.score_rank
    THEN r.score_rank[ScoreKey(player, proj)]
    ELSE 0

\* the exact scores of p and q are equal, and their floats are computed
\* from different numbers with rounding on at least one side
ScoreTied(player, p, q) ==
    /\ ~ ScoreBelow(player, p, q)
    /\ ~ ScoreBelow(player, q, p)
    /\ ScoreKey(player, p) # ScoreKey(player, q)
    /\ ~ (ScoreExact(player, p) /\ ScoreExact(player, q))

\* the exact score of p is 2.0 and its float is rounded
CeilingTied(player, p) ==
    /\ ~ ScoreAboveCeiling(player, p)
    /\ ~ ScoreBelowCeiling(player, p)
    /\ ~ ScoreExact(player, p)

\* threat_score(p) < threat_score(q)
ScoreLess(player, p, q, r) ==
    \/ ScoreBelow(player, p, q)
    \/ /\ ScoreTied(player, p, q)
       /\ ScoreSign(player, p, r) < ScoreSign(player, q, r)

\* threat_score(p) > 2.0
AboveCeiling(player, p, r) ==
    \/ ScoreAboveCeiling(player, p)
    \/ (CeilingTied(player, p) /\ ScoreSign(player, p, r) > 0)

\* the loop of lines 82-122 from index i on; best is the index of
\* most_dangerous so far (0 for None)
RECURSIVE ScanThreats(_, _, _, _, _)
ScanThreats(player, projectiles, i, best, r) ==
    IF i > Len(projectiles) THEN best
    ELSE IF /\ Candidate(player, projectiles[i], r)
            /\ \/ best = 0
               \/ ScoreLess(player, projectiles[i], projectiles[best], r)
         THEN ScanThreats(player, projectiles, i + 1, i, r)
         ELSE ScanThreats(player, projectiles, i + 1, best, r)

\* index of the projectile the dodge is computed from, 0 when there is none
MostDangerous(player, projectiles, r) ==
    LET best == ScanThreats(player, projectiles, 1, 0, r)
    IN  IF best = 0 \/ AboveCeiling(player, projectiles[best], r) THEN 0 ELSE best

\* vx_norm and vy_norm are rounded quotients of different size
PerpInexact(proj) ==
    proj.vx # 0 /\ proj.vy # 0 /\ Abs(proj.vx) # Abs(proj.vy)

\* dot1 * vel_len, where dot1 = perp1_x * dx_to_proj + perp1_y * dy_to_proj;
\* dot2 = -dot1, in exact values and in floats
PerpDot(player, proj) ==
    (-proj.vy) * (proj.x - player.x) + proj.vx * (proj.y - player.y)

\* the projectile flies along the line through the player, and the float
\* dot1 is a sum of two rounded products
PerpTied(player, proj) == PerpDot(player, proj) = 0 /\ PerpInexact(proj)

\* a dodge along the velocity instead of across it
DodgeVectorParallel(player, proj, r) == <<proj.vx, proj.vy>>

\* (dodge_x, dodge_y) * vel_len for the selected projectile (lines 139-153)
DodgeVector(player, proj, r) ==
    LET perp1_x == -proj.vy
        perp1_y == proj.vx
        perp2_x == proj.vy
        perp2_y == -proj.vx
        dx_to_proj == proj.x - player.x
        dy_to_proj == proj.y - player.y
        dot1 == perp1_x * dx_to_proj + perp1_y * dy_to_proj
        dot2 == perp2_x * dx_to_proj + perp2_y * dy_to_proj
    IN  IF dot1 < dot2 \/ (PerpTied(player, proj) /\ proj \in r.perp_down)
        THEN <<perp1_x, perp1_y>>
        ELSE <<perp2_x, perp2_y>>

dodge_projectiles(player, projectiles, r) ==
    IF projectiles = <<>> THEN None
    ELSE LET best == MostDangerous(player, projectiles, r)
         IN  IF best = 0 THEN None
             ELSE IF BelowEps(Speed2(projectiles[best]), 1) THEN None
             ELSE LET dodge == DodgeVector(player, projectiles[best], r)
                      q == Quantize(dodge[1], dodge[2])
                  IN  Action(q[1], q[2], 0, 0)

(***************************************************************************)
(* Contact Avoider: RulesEngine._avoid_enemies                             *)
(***************************************************************************)
\* a filter that keeps an enemy at exactly the avoid distance
IsCloseInclusive(e) == e.distance <= AVOID_DISTANCE * DistScale /\ e.distance > 0

\* the filter of line 173
IsClose(e) == e.distance < AVOID_DISTANCE * DistScale /\ e.distance > 0

CloseEnemies(enemies) == SelectSeq(enemies, IsClose)

\* max(enemy.distance, 1.0) * DistScale; weight = DistScale / WeightDen
WeightDen(e) == Max(e.distance, 1 * DistScale)

\* a common denominator of the weights of close[i..]
RECURSIVE CommonDen(_, _)
CommonDen(close, i) ==
    IF i > Len(close) THEN 1
    ELSE Lcm(WeightDen(close[i]), CommonDen(close, i + 1))

\* the sums of lines 182-190, times CommonDen / DistScale
RECURSIVE AvoidSumX(_, _, _, _)
AvoidSumX(player, close, w, i) ==
    IF i > Len(close) THEN 0
    ELSE (player.x - close[i].x) * (w \div WeightDen(close[i]))
         + AvoidSumX(player, close, w, i + 1)

RECURSIVE AvoidSumY(_, _, _, _)
AvoidSumY(player, close, w, i) ==
    IF i > Len(close) THEN 0
    ELSE (player.y - close[i].y) * (w \div WeightDen(close[i]))
         + AvoidSumY(player, close, w, i + 1)

\* (avoid_x, avoid_y) * CommonDen / DistScale
AvoidVector(player, enemies) ==
    LET close == CloseEnemies(enemies)
        w == CommonDen(close, 1)
    IN  <<AvoidSumX(player, close, w, 1), AvoidSumY(player, close, w, 1)>>

\* (avoid_len * CommonDen)^2
AvoidLen2(player, enemies) ==
    LET v == AvoidVector(player, enemies)
    IN  (v[1] * v[1] + v[2] * v[2]) * DistScale * DistScale

\* the sums are rounded: more than one enemy is summed, and some weight
\* 1 / max(distance, 1) is not a power of two
AvoidInexact(enemies) ==
    LET close == CloseEnemies(enemies)
    IN  /\ Len(close) > 1
        /\ \E i \in 1..Len(close) : ~ IsPow2(WeightDen(close[i]))

\* the exact avoid_len is 1/10
AvoidLenTied(player, enemies) ==
    /\ CloseEnemies(enemies) # <<>>
    /\ AtEps(AvoidLen2(player, enemies), CommonDen(CloseEnemies(enemies), 1))

\* the exact sums have |avoid_x| = |avoid_y| and are rounded
AvoidAxisTied(player, enemies) ==
    /\ CloseEnemies(enemies) # <<>>
    /\ AvoidInexact(enemies)
    /\ Abs(AvoidVector(player, enemies)[1]) = Abs(AvoidVector(player, enemies)[2])

avoid_enemies(player, enemies, r) ==
    IF enemies = <<>> THEN None
    ELSE LET close == CloseEnemies(enemies)
         IN  IF close = <<>> THEN None
             ELSE LET v == AvoidVector(player, enemies)
                      w == CommonDen(close, 1)
                  IN  IF BelowEpsRounded(AvoidLen2(player, enemies), w, r.avoid_below)
                      THEN None
                      ELSE LET q == QuantizeRounded(v[1], v[2],
                                        AvoidInexact(enemies) /\ r.avoid_x)
                           IN  Action(q[1], q[2], 0, 0)

(***************************************************************************)
(* Target Selector & Aimer: RulesEngine._attack_nearest                    *)
(***************************************************************************)
\* a range test that leaves out the range itself
InAttackRangeExclusive(e) == e.distance < ATTACK_RANGE * DistScale

\* `enemy.distance <= self.attack_range`
InAttackRange(e) == e.distance <= ATTACK_RANGE * DistScale

\* the enemy with the smallest distance among those in range (0: none)
GloballyNearest(enemies, i) ==
    IF \E k \in i..Len(enemies) : InAttackRange(enemies[k])
    THEN CHOOSE k \in i..Len(enemies) :
             /\ InAttackRange(enemies[k])
             /\ \A j \in i..Len(enemies) :
                    \/ enemies[j].distance > enemies[k].distance
                    \/ (enemies[j].distance = enemies[k].distance /\ j >= k)
    ELSE 0

\* the loop of lines 214-217 from index i on: the index of `nearest` (0: None)
RECURSIVE FirstInRange(_, _)
FirstInRange(enemies, i) ==
    IF i > Len(enemies) THEN 0
    ELSE IF InAttackRange(enemies[i]) THEN i
    ELSE FirstInRange(enemies, i + 1)

\* `abs(nearest.vx) > 0.1 or abs(nearest.vy) > 0.1`
Leads(e) == Abs(e.vx) * EpsDen > EpsNum \/ Abs(e.vy) * EpsDen > EpsNum

\* lead_factor = distance / 200.0 = e.distance / LeadDen
LeadDen == LeadDivisor * DistScale

\* (dx, dy) * LeadDen after lines 223-231
AimVector(player, e) ==
    IF Leads(e)
    THEN <<(e.x - player.x) * LeadDen + e.vx * e.distance,
           (e.y - player.y) * LeadDen + e.vy * e.distance>>
    ELSE <<(e.x - player.x) * LeadDen, (e.y - player.y) * LeadDen>>

\* (aim_len * LeadDen)^2
AimLen2(player, e) ==
    LET v == AimVector(player, e)
    IN  v[1] * v[1] + v[2] * v[2]

\* the lead is rounded: lead_factor = e.distance / LeadDen does not have a
\* power of two as its denominator; and the two components are not computed
\* by the same operations on numbers of the same size
AimInexact(player, e) ==
    /\ Leads(e)
    /\ ~ IsPow2(LeadDen \div Gcd(LeadDen, e.distance))
    /\ ~ (/\ Abs(e.x - player.x) = Abs(e.y - player.y)
          /\ Abs(e.vx) = Abs(e.vy))

\* the exact aim_len is 1/10
AimLenTied(player, e) == AtEps(AimLen2(player, e), LeadDen)

\* the exact aim has |dx| = |dy| and is rounded
AimAxisTied(player, e) ==
    /\ AimInexact(player, e)
    /\ Abs(AimVector(player, e)[1]) = Abs(AimVector(player, e)[2])

\* lines 222-245 for the selected enemy
AimAt(player, e, r) ==
    LET v == AimVector(player, e)
    IN  IF BelowEpsRounded(AimLen2(player, e), LeadDen, e \in r.aim_below)
        THEN None
        ELSE LET q == QuantizeRounded(v[1], v[2],
                          AimInexact(player, e) /\ e \in r.aim_x)
             IN  Action(0, 0, q[1], q[2])

attack_nearest(player, enemies, r) ==
    IF enemies = <<>> THEN None
    ELSE LET nearest == FirstInRange(enemies, 1)
         IN  IF nearest = 0 THEN None
             ELSE AimAt(player, enemies[nearest], r)

(***************************************************************************)
(* Approach Planner: RulesEngine._approach_enemies                         *)
(***************************************************************************)
\* (dx, dy) toward enemies[0]
ApproachVector(player, e) == <<e.x - player.x, e.y - player.y>>

approach_enemies(player, enemies) ==
    IF enemies = <<>> THEN None
    ELSE LET nearest == enemies[1]
         IN  IF \/ nearest.distance < ATTACK_RANGE * DistScale
                \/ nearest.distance > APPROACH_RANGE * DistScale
             THEN None
             ELSE LET v == ApproachVector(player, nearest)
                  IN  IF BelowEps(v[1] * v[1] + v[2] * v[2], 1) THEN None
                      ELSE LET q == Quantize(v[1], v[2])
                           IN  Action(q[1], q[2], 0, 0)

(***************************************************************************)
(* Decision Arbiter: RulesEngine.decide_action                             *)
(***************************************************************************)
\* `not state or not state.player`
NoState(st) == st = None \/ st.player = None

\* a default Action that shoots
NoOpFiring == Action(0, 0, 0, 1)

\* `Action()`: the no-op of line 29 and of line 70
NoOp == Action(0, 0, 0, 0)

\* a combination that drops the aim
CombineMoveOnly(m, a) == Action(m.move_x, m.move_y, 0, 0)

\* Action(move_x=m.move_x, move_y=m.move_y,
\*        shoot_x=a.shoot_x if a else 0, shoot_y=a.shoot_y if a else 0)
Combine(m, a) ==
    IF a # None
    THEN Action(m.move_x, m.move_y, a.shoot_x, a.shoot_y)
    ELSE Action(m.move_x, m.move_y, 0, 0)

\* decide_action with the approach consulted before the avoidance
DecideApproachFirst(st, r) ==
    IF NoState(st) THEN [action |-> NoOp, calls |-> <<>>]
    ELSE LET player == st.player
             dodge_action == dodge_projectiles(player, st.projectiles, r)
             avoid_action == avoid_enemies(player, st.enemies, r)
             attack_action == attack_nearest(player, st.enemies, r)
             approach_action == approach_enemies(player, st.enemies)
         IN  IF dodge_action # None
             THEN [action |-> Combine(dodge_action, attack_action),
                   calls |-> <<"dodge", "attack">>]
             ELSE IF approach_action # None
             THEN [action |-> Combine(approach_action, attack_action),
                   calls |-> <<"dodge", "approach", "attack">>]
             ELSE IF avoid_action # None
             THEN [action |-> Combine(avoid_action, attack_action),
                   calls |-> <<"dodge", "approach", "attack", "avoid">>]
             ELSE [action |-> IF attack_action # None THEN attack_action ELSE NoOp,
                   calls |-> <<"dodge", "approach", "attack", "avoid">>]

\* the returned Action, and the sub-components evaluated on the way, in order
decide_action(st, r) ==
    IF NoState(st) THEN [action |-> NoOp, calls |-> <<>>]
    ELSE LET player == st.player
             dodge_action == dodge_projectiles(player, st.projectiles, r)
             avoid_action == avoid_enemies(player, st.enemies, r)
             attack_action == attack_nearest(player, st.enemies, r)
             approach_action == approach_enemies(player, st.enemies)
         IN  IF dodge_action # None
             THEN [action |-> Combine(dodge_action, attack_action),
                   calls |-> <<"dodge", "attack">>]
             ELSE IF avoid_action # None
             THEN [action |-> Combine(avoid_action, attack_action),
                   calls |-> <<"dodge", "avoid", "attack">>]
             ELSE IF approach_action # None
             THEN [action |-> Combine(approach_action, attack_action),
                   calls |-> <<"dodge", "avoid", "attack", "approach">>]
             ELSE [action |-> IF attack_action # None THEN attack_action ELSE NoOp,
                   calls |-> <<"dodge", "avoid", "attack", "approach">>]

(***************************************************************************)
(* The ways the roundings of one decision can come out.                    *)
(***************************************************************************)
\* the projectiles of the scan whose dot product is not negative
Approaching(player, projectiles) ==
    {p \in Range(projectiles) :
        /\ Scanned(player, p)
        /\ DotNum(player, p) > 0 \/ DotTied(player, p)}

\* the keys of the scores that rounding can move across another score of
\* the scan or across the ceiling
ScoreTiedKeys(player, projectiles) ==
    LET among == Approaching(player, projectiles)
    IN  {ScoreKey(player, p) :
            p \in {q \in among :
                      /\ ~ ScoreExact(player, q)
                      /\ \/ CeilingTied(player, q)
                         \/ \E o \in among : ScoreTied(player, q, o)}}

\* the orders in which the floats of the keys can lie around their exact
\* values: a number for each key, the numbers above 0 that are used being
\* 1, 2, ... without a gap, and so those below 0
RankOrders(keys) ==
    {f \in [keys -> (-Cardinality(keys))..Cardinality(keys)] :
        \A k \in keys :
            /\ f[k] > 1 => \E j \in keys : f[j] = f[k] - 1
            /\ f[k] < -1 => \E j \in keys : f[j] = f[k] + 1}

\* for a snapshot with a player: every comparison that rounding decides,
\* coming out either way
Roundings(st) ==
    IF NoState(st) THEN {NoRounding}
    ELSE LET player == st.player
             among == Approaching(player, st.projectiles)
             keys == ScoreTiedKeys(player, st.projectiles)
             nearest == FirstInRange(st.enemies, 1)
             target == IF nearest = 0 THEN {} ELSE {st.enemies[nearest]}
         IN  [dot_up : SUBSET {p \in among : DotTied(player, p)},
              score_rank : RankOrders(keys),
              perp_down : SUBSET {p \in among : PerpTied(player, p)},
              avoid_below : IF AvoidLenTied(player, st.enemies)
                            THEN BOOLEAN ELSE {FALSE},
              avoid_x : IF AvoidAxisTied(player, st.enemies)
                        THEN BOOLEAN ELSE {FALSE},
              aim_below : SUBSET {e \in target : AimLenTied(player, e)},
              aim_x : SUBSET {e \in target : AimAxisTied(player, e)}]

(***************************************************************************)
(* The agent's choice of a decision: IsaacAgent._decide_action             *)
(***************************************************************************)
\* AgentMode.RANDOM.value and AgentMode.RULE_BASED.value
RANDOM == "random"

RULE_BASED == "rules"

\* the modes IsaacAgent.__init__ accepts
Modes == {RANDOM, RULE_BASED}

\* `random.choice([-1, 0, 1])`
RandomChoices == {-1, 0, 1}

\* what _random_action can return
random_action ==
    {Action(mx, my, sx, sy) :
        mx \in RandomChoices, my \in RandomChoices,
        sx \in RandomChoices, sy \in RandomChoices}

\* _decide_action(state): a random action in random mode, the engine's
\* decision in rule-based mode, `Action()` in any other mode; the engine is
\* called in rule-based mode only
AgentDecides ==
    IF mode = RANDOM
    THEN /\ action' \in random_action
         /\ calls' = <<>>
         /\ rounding' = NoRounding
    ELSE IF mode = RULE_BASED
    THEN \E r \in Roundings(state) :
             /\ action' = decide_action(state, r).action
             /\ calls' = decide_action(state, r).calls
             /\ rounding' = r
    ELSE /\ action' = NoOp
         /\ calls' = <<>>
         /\ rounding' = NoRounding

(***************************************************************************)
(* Snapshots.  An entity is placed by its offset from the player; its      *)
(* `distance` is a separate field of the snapshot, which the engine never  *)
(* recomputes from the positions.                                          *)
(***************************************************************************)
\* at most this many enemies and projectiles together in one snapshot
MaxEntities == 2

Origin == [x |-> 0, y |-> 0]

PlayerDom == {Origin, [x |-> 1, y |-> -1]}

EnemyState(p, o, v, d) ==
    [x |-> p.x + o[1], y |-> p.y + o[2], vx |-> v[1], vy |-> v[2], distance |-> d]

\* on the X axis, on a diagonal, on the Y axis, on the player
EnemyOffsets == {<<1, 0>>, <<-1, 1>>, <<0, -2>>, <<0, 0>>}

\* 0, 0.5, 100, 300, 300.5 and 400.5 game units
EnemyDists ==
    {0, 1, LeadDivisor, ATTACK_RANGE * DistScale, ATTACK_RANGE * DistScale + 1,
     APPROACH_RANGE * DistScale + 1}

\* enemies apart from the grid of offsets and distances: two standing ones
\* whose distance is the length of their offset (one at exactly the avoid
\* distance and one at distance 5), and two (distances 0.5 and 1.5) whose
\* weighted offsets sum to exactly (5/3, 5/3) through thirds, which floats
\* round
EnemiesApart(p) ==
    {EnemyState(p, <<AVOID_DISTANCE, 0>>, <<0, 0>>, AVOID_DISTANCE * DistScale),
     EnemyState(p, <<-3, 4>>, <<0, 0>>, 5 * DistScale),
     EnemyState(p, <<-3, -1>>, <<0, 0>>, 1),
     EnemyState(p, <<2, -1>>, <<0, 0>>, 3)}

\* the enemies around p: standing ones at every distance, moving ones at the
\* two distances where the lead is 1/2 and 3/2 of the velocity, and the ones
\* apart
EnemiesAround(p) ==
    {EnemyState(p, o, <<0, 0>>, d) : o \in EnemyOffsets, d \in EnemyDists}
    \cup {EnemyState(p, o, <<2, -2>>, d) :
             o \in EnemyOffsets, d \in {LeadDivisor, ATTACK_RANGE * DistScale}}
    \cup EnemiesApart(p)

ProjectileState(p, o, v, d, h) ==
    [x |-> p.x + o[1], y |-> p.y + o[2], vx |-> v[1], vy |-> v[2],
     distance |-> d, is_hostile |-> h]

ProjVels == {<<0, 0>>, <<1, 0>>, <<2, 0>>, <<1, 1>>, <<1, -1>>, <<0, -1>>}

\* the velocities given to a projectile above the player: across, straight
\* down at it, and diagonally down
ProjVelsAbove == {<<1, 0>>, <<0, -1>>, <<1, -1>>}

\* 0.5, 1, 4, 5, 100 and 100.5 game units
ProjDists ==
    {1, MinDodgeDist * DistScale, 8, 10, DODGE_DISTANCE * DistScale,
     DODGE_DISTANCE * DistScale + 1}

\* projectiles off the axes and the diagonals, where the unit vectors are
\* rounded: one flying exactly across the direction to the player, one flying
\* straight at the player, and two (distances 60 and 26) whose threat scores
\* are both exactly 2.0, the ceiling
ProjectilesAskew(p) ==
    {ProjectileState(p, <<-3, -4>>, <<-4, 3>>, 5 * DistScale, TRUE),
     ProjectileState(p, <<-4, -3>>, <<4, 3>>, 1 * DistScale, TRUE),
     ProjectileState(p, <<-3, -4>>, <<3, 0>>, 60 * DistScale, TRUE),
     ProjectileState(p, <<5, 12>>, <<4, -3>>, 26 * DistScale, TRUE)}

\* the projectiles around p: hostile ones to the left of the player and
\* above it, at every distance; one on the player itself; the fast one of the
\* dodge example (distance 10, velocity (100, 0)); a few of the player's
\* own tears; and the ones off the axes
ProjectilesAround(p) ==
    ProjectilesAskew(p)
    \cup {ProjectileState(p, <<-1, 0>>, v, d, TRUE) : v \in ProjVels, d \in ProjDists}
    \cup {ProjectileState(p, <<0, 2>>, v, d, TRUE) :
             v \in ProjVelsAbove, d \in ProjDists}
    \cup {ProjectileState(p, <<0, 0>>, <<1, 0>>, MinDodgeDist * DistScale, TRUE),
          ProjectileState(p, <<-10, 0>>, <<100, 0>>, 10 * DistScale, TRUE)}
    \cup {ProjectileState(p, <<-1, 0>>, v, d, FALSE) :
             v \in {<<2, 0>>, <<1, 1>>},
             d \in {MinDodgeDist * DistScale, DODGE_DISTANCE * DistScale}}

\* the numbers of enemies and of projectiles of a snapshot
Sizes == {n \in (0..MaxEntities) \X (0..MaxEntities) : n[1] + n[2] <= MaxEntities}

\* GameState: the fields the engine reads
GameState(p, es, ps) == [player |-> p, enemies |-> es, projectiles |-> ps]

\* the player of a snapshot and the place its entities are laid out around
Players == {<<None, Origin>>} \cup {<<p, p>> : p \in PlayerDom}

\* the snapshots a random decision is made for: it does not look at them
RandomSnapshots ==
    {None, GameState(None, <<>>, <<>>), GameState(Origin, <<>>, <<>>),
     GameState(Origin, <<EnemyState(Origin, <<1, 0>>, <<0, 0>>, LeadDivisor)>>, <<>>)}

(***************************************************************************)
(* The agent as constructed: IsaacAgent.__init__, StateReader.__init__ and *)
(* ActionWriter.__init__.  Nothing has been read or written; the clock is  *)
(* past 0, the initial value of last_mtime; the messages printed so far    *)
(* have been written.  The counters and timestamps kept for the statistics *)
(* printout are left out.                                                  *)
(***************************************************************************)
Constructed ==
    /\ mode \in Modes
    /\ stdout_open = TRUE
    /\ running = FALSE
    /\ clock = STATE_TIMEOUT
    /\ state_file = None
    /\ action_file = None
    /\ last_mtime = 0
    /\ last_frame = -1
    /\ cached_state = None
    /\ read_case = "none"
    /\ attempt = None
    /\ error_count = 0
    /\ at = "entry"
    /\ mtime = None
    /\ data = None
    /\ verbose = FALSE
    /\ log_actions = FALSE
    /\ read_errors = 0

(***************************************************************************)
(* One tick: the loop hands a snapshot to the engine, which decides.       *)
(* A snapshot without a player holds at most one enemy and one projectile, *)
(* one whose player is away from the origin holds fewer than MaxEntities   *)
(* entities.  Single entities and pairs are drawn from all the entities    *)
(* around the player; a snapshot of more than two holds at least one of    *)
(* EnemiesApart or of ProjectilesAskew.                                    *)
(***************************************************************************)
Init ==
    /\ Constructed
    /\ IF mode = RANDOM
       THEN state \in RandomSnapshots
       ELSE \/ state = None
            \/ \E n \in Sizes, p \in Players :
                   /\ p[1] = None => n[1] <= 1 /\ n[2] <= 1
                   /\ p[2] # Origin => n[1] + n[2] < MaxEntities
                   /\ \E es \in [1..n[1] -> EnemiesAround(p[2])],
                         ps \in [1..n[2] -> ProjectilesAround(p[2])] :
                          /\ n[1] + n[2] > 2 =>
                                 \/ \E i \in 1..n[1] : es[i] \in EnemiesApart(p[2])
                                 \/ \E i \in 1..n[2] : ps[i] \in ProjectilesAskew(p[2])
                          /\ state = GameState(p[1], es, ps)
    /\ action = None
    /\ calls = <<>>
    /\ pc = "ready"
    /\ rounding = NoRounding

\* `action = self._decide_action(state)` for the snapshot in hand
Decide ==
    /\ pc = "ready"
    /\ AgentDecides
    /\ pc' = "done"
    /\ UNCHANGED <<state, loopvars>>

Next == Decide

Spec == Init /\ [][Next]_vars

TypeOK ==
    /\ pc \in {"ready", "done"}
    /\ pc = "done" => action # None

(***************************************************************************)
(* State reader: StateReader.read_state and StateReader._parse_state       *)
(***************************************************************************)
\* the decoded contents of a state file that is not valid JSON
Corrupt == [corrupt |-> TRUE]

\* `data.get(...)[:self.max_enemies]`
Truncate(seq, n) == SubSeq(seq, 1, Min(Len(seq), n))

\* _parse_state: None without player data, else the GameState
parse_state(d) ==
    IF d.player = None THEN None
    ELSE [frame |-> d.frame,
          player |-> d.player,
          enemies |-> Truncate(d.enemies, MAX_ENEMIES),
          projectiles |-> Truncate(d.projectiles, MAX_PROJECTILES)]

\* a test that takes any frame other than the last one
IsOtherFrame(frame, last) == frame # last

\* `state.frame > self.last_frame`
IsNewerFrame(frame, last) == frame > last

\* the entries of a list of the file that _parse_state converts
ListLimit(list) == IF list = "enemies" THEN MAX_ENEMIES ELSE MAX_PROJECTILES

\* a list without its i-th entry
Without(seq, i) == SubSeq(seq, 1, i - 1) \o SubSeq(seq, i + 1, Len(seq))

(***************************************************************************)
(* Action writer: ActionWriter.write_action and ActionWriter.clear_action   *)
(***************************************************************************)
\* the action file after write_action(a): a when the write succeeds; when
\* it fails, the old file, or no readable file if the failure came after the
\* old file was removed or truncated
write_action(a, ok, intact) ==
    IF ok THEN a ELSE IF intact THEN action_file ELSE None

\* `self.error_count <= 3`: the failures write_action reports
ErrorPrintLimit == 3

\* `self.error_count < 3`: the failures read_state reports
ReadErrorLimit == 3

(***************************************************************************)
(* Main loop: IsaacAgent.run.  The loop runs from its `while` test to the  *)
(* end of the `finally` block.  A call of read_state or write_action is a  *)
(* sequence of steps, one per system call it makes; signals, the game      *)
(* writing the state file, stdout closing and the passing of time          *)
(* interleave with these steps until run() has ended.  `pc` is the         *)
(* position in run() and `at` the position inside the call in progress.    *)
(* A signal is handled where the interpreter looks for one: on entry to a  *)
(* function and after a call returns, never inside a run of assignments.   *)
(* The messages the reader and the writer print under VERBOSE and          *)
(* LOG_ACTIONS are steps of the call that prints them: once stdout is      *)
(* closed each of them raises ValueError where it stands.                  *)
(***************************************************************************)
\* the highest frame number the game writes
MaxFrame == 1

\* the clock advances by STATE_TIMEOUT seconds at a time, this many times
MaxClockSteps == 3

\* a room with one enemy to the right within attack range, and contents
\* without player data
RoomData ==
    {[player |-> Origin,
      enemies |-> <<EnemyState(Origin, <<1, 0>>, <<0, 0>>, LeadDivisor)>>,
      projectiles |-> <<>>],
     [player |-> None, enemies |-> <<>>, projectiles |-> <<>>]}

\* the frame numbers a room is written with: _parse_state does not look at
\* the frame of contents without player data
Frames(r) == IF r.player = None THEN {0} ELSE 0..MaxFrame

\* what the game may leave in the state file
FileData ==
    {Corrupt}
    \cup UNION {{[frame |-> f, player |-> r.player, enemies |-> r.enemies,
                  projectiles |-> r.projectiles] : f \in Frames(r)} :
                r \in RoomData}

\* the positions inside the `try` block of run()
InLoop == {"loop", "read", "decide", "write"}

\* where control goes when the loop is left, by its condition or by an
\* exception: the `finally` block
LoopExit == "finally"

\* the positions inside a write_action call: the one of the loop and the one
\* clear_action makes
InWrite == {"write", "clear"}

\* the Action the write_action call in progress was given
Writing == IF pc = "clear" THEN NoOp ELSE action

\* where run() goes on when the write_action call in progress returns
AfterWrite == IF pc = "clear" THEN "stats" ELSE "loop"

\* where an exception that reaches run() takes it: to the `finally` block
\* from inside the `try`, out of run() from inside the `finally` block
Raised == IF pc \in InLoop THEN LoopExit ELSE "stopped"

\* the variables by the part of the program that owns them
decision == <<action, calls, rounding>>

flags == <<mode, verbose, log_actions>>

reader == <<last_mtime, last_frame, cached_state>>

locals == <<mtime, data>>

writer == <<action_file, attempt, error_count>>

world == <<clock, state_file, stdout_open>>

\* run() up to the `try`, in either mode, with or without --verbose and
\* --log-actions: `self.running = True`; the messages of lines 69-72 have
\* been written
InitLoop ==
    /\ mode \in Modes
    /\ verbose \in BOOLEAN
    /\ log_actions \in BOOLEAN
    /\ stdout_open = TRUE
    /\ rounding = NoRounding
    /\ state = None
    /\ action = None
    /\ calls = <<>>
    /\ pc = "loop"
    /\ at = "entry"
    /\ running = TRUE
    /\ clock = STATE_TIMEOUT
    /\ state_file = None
    /\ action_file = None
    /\ last_mtime = 0
    /\ last_frame = -1
    /\ cached_state = None
    /\ read_errors = 0
    /\ read_case = "none"
    /\ mtime = None
    /\ data = None
    /\ attempt = None
    /\ error_count = 0

\* `while self.running:`; the path of the previous tick's read_state call is
\* kept up to here
LoopTest ==
    /\ pc = "loop"
    /\ pc' = IF running THEN "read" ELSE LoopExit
    /\ read_case' = "none"
    /\ UNCHANGED <<state, decision, at, running, flags, reader, read_errors,
                   locals, writer, world>>

\* `self.error_count += 1` of the reader, counted up to ReadErrorLimit
Counted(n) == Min(n + 1, ReadErrorLimit)

\* read_state returns `self._cached_state` without having taken a snapshot
\* from the file, leaving error_count at n; in run(),
\* `state = ...read_state()` and for None the sleep and `continue`
Returns(case, n) ==
    /\ read_case' = case
    /\ read_errors' = n
    /\ state' = cached_state
    /\ pc' = IF cached_state = None THEN "loop" ELSE "decide"
    /\ at' = "entry"
    /\ mtime' = None
    /\ data' = None

\* an exception leaves read_state, with error_count at n, and is raised in
\* run(), whose `state` stays as it is
Escapes(n) ==
    /\ read_case' = "raised"
    /\ read_errors' = n
    /\ state' = state
    /\ pc' = Raised
    /\ at' = "entry"
    /\ mtime' = None
    /\ data' = None

\* print() raises
Closed == ~stdout_open

\* read_state: `except Exception`, entered with error_count at n: the print
\* of lines 160-161, `self.error_count += 1` and the return
Excepts(n) ==
    IF verbose /\ n < ReadErrorLimit /\ Closed
    THEN Escapes(n)
    ELSE Returns("exception", Counted(n))

\* read_state: `except json.JSONDecodeError`: the print of lines 155-156,
\* `self.error_count += 1` and the return
Undecoded ==
    IF verbose /\ read_errors < ReadErrorLimit /\ Closed
    THEN Escapes(read_errors)
    ELSE Returns("corrupt", Counted(read_errors))

\* read_state: the branch under `if not path.exists():`: the print of lines
\* 108-109, `self.error_count += 1` and the return
Missing ==
    IF verbose /\ read_errors = 0 /\ Closed
    THEN Excepts(read_errors)
    ELSE Returns("missing", Counted(read_errors))

\* `self.error_count % 100 == 0`, which a count of ReadErrorLimit (standing
\* for every count from there on) leaves open
Hundredth(due) == read_errors < ReadErrorLimit => (due <=> read_errors = 0)

\* read_state: `if not path.exists():`
ReadExists ==
    /\ pc = "read"
    /\ at = "entry"
    /\ IF state_file = None
       THEN Missing
       ELSE at' = "stat" /\ UNCHANGED <<state, pc, read_case, read_errors, locals>>
    /\ UNCHANGED <<decision, running, flags, reader, writer, world>>

\* read_state: `mtime = path.stat().st_mtime`, the `except OSError` under it
\* with its print, and `if mtime == self.last_mtime:`
ReadStat ==
    /\ pc = "read"
    /\ at = "stat"
    /\ \/ IF verbose /\ Closed
          THEN Excepts(read_errors)
          ELSE Returns("stat_error", read_errors)
       \/ /\ state_file # None
          /\ IF state_file.mtime = last_mtime
             THEN Returns("unchanged", read_errors)
             ELSE /\ at' = "time"
                  /\ mtime' = state_file.mtime
                  /\ UNCHANGED <<state, pc, read_case, read_errors, data>>
    /\ UNCHANGED <<decision, running, flags, reader, writer, world>>

\* read_state: `current_time = time.time()`, the staleness test with its
\* print, and `self.last_mtime = mtime`, after which the local is not used
\* again
ReadTime ==
    /\ pc = "read"
    /\ at = "time"
    /\ IF clock - mtime > STATE_TIMEOUT
       THEN /\ \E due \in BOOLEAN :
                   /\ Hundredth(due)
                   /\ IF verbose /\ due /\ Closed
                      THEN Excepts(read_errors)
                      ELSE Returns("stale", read_errors)
            /\ UNCHANGED last_mtime
       ELSE /\ last_mtime' = mtime
            /\ at' = "open"
            /\ mtime' = None
            /\ UNCHANGED <<state, pc, read_case, read_errors, data>>
    /\ UNCHANGED <<decision, running, flags, last_frame, cached_state, writer,
                   world>>

\* read_state: `with open(path, 'r') as f: data = json.load(f)`; a file that
\* cannot be opened or read ends in `except Exception`, one that does not
\* decode in `except json.JSONDecodeError`
ReadOpen ==
    /\ pc = "read"
    /\ at = "open"
    /\ \/ Excepts(read_errors)
       \/ /\ state_file # None
          /\ IF state_file.data = Corrupt
             THEN Undecoded
             ELSE /\ at' = "parse"
                  /\ data' = state_file.data
                  /\ UNCHANGED <<state, pc, read_case, read_errors, mtime>>
    /\ UNCHANGED <<decision, running, flags, reader, writer, world>>

\* read_state: `state = self._parse_state(data)`, the frame test, the update
\* of the cache under it (which sets error_count to 0) with its print, and the
\* return.  The print is made when read_count, which is not kept, is a
\* multiple of 60.
ReadParse ==
    /\ pc = "read"
    /\ at = "parse"
    /\ LET parsed == parse_state(data)
       IN  IF parsed # None /\ IsNewerFrame(parsed.frame, last_frame)
           THEN /\ last_frame' = parsed.frame
                /\ cached_state' = parsed
                /\ \E due \in BOOLEAN :
                       IF verbose /\ due /\ Closed
                       THEN Escapes(0)
                       ELSE /\ read_case' = "fresh"
                            /\ read_errors' = 0
                            /\ state' = parsed
                            /\ pc' = "decide"
                            /\ at' = "entry"
                            /\ mtime' = None
                            /\ data' = None
           ELSE /\ Returns("rejected", read_errors)
                /\ UNCHANGED <<last_frame, cached_state>>
    /\ UNCHANGED <<decision, running, flags, last_mtime, writer, world>>

\* `action = self._decide_action(state)`
RunDecide ==
    /\ pc = "decide"
    /\ AgentDecides
    /\ pc' = "write"
    /\ UNCHANGED <<state, loopvars>>

\* write_action: the temporary file is written and renamed over the action
\* file, or written in its place; a step that raises ends in
\* `except Exception`
WriteFile ==
    /\ pc \in InWrite
    /\ at = "entry"
    /\ \E ok, intact \in BOOLEAN :
           /\ action_file' = write_action(Writing, ok, intact)
           /\ at' = IF ok THEN "done" ELSE "except"
    /\ UNCHANGED <<state, decision, pc, running, flags, read_case, reader,
                   read_errors, locals, attempt, error_count, world>>

\* write_action: the bookkeeping after the file is in place,
\* `self.error_count = 0`, the print of lines 91-92 and `return True`; in
\* run(), the sleep.  A print that raises ends in `except Exception`, which
\* counts one failure, prints again, and so raises in the caller.
WriteDone ==
    /\ pc \in InWrite
    /\ at = "done"
    /\ at' = "entry"
    /\ IF log_actions /\ Closed
       THEN /\ error_count' = 1
            /\ attempt' = [action |-> Writing, ok |-> FALSE]
            /\ pc' = Raised
       ELSE /\ error_count' = 0
            /\ attempt' = [action |-> Writing, ok |-> TRUE]
            /\ pc' = AfterWrite
    /\ UNCHANGED <<state, decision, running, flags, read_case, reader,
                   read_errors, locals, action_file, world>>

\* write_action: `except Exception`: `self.error_count += 1`, the print of
\* lines 98-99, `return False`; a print that raises, raises in the caller
WriteExcept ==
    /\ pc \in InWrite
    /\ at = "except"
    /\ error_count' = Min(error_count + 1, ErrorPrintLimit)
    /\ attempt' = [action |-> Writing, ok |-> FALSE]
    /\ at' = "entry"
    /\ pc' = IF (verbose \/ error_count + 1 <= ErrorPrintLimit) /\ Closed
             THEN Raised
             ELSE AfterWrite
    /\ UNCHANGED <<state, decision, running, flags, read_case, reader,
                   read_errors, locals, action_file, world>>

\* a KeyboardInterrupt, or an Exception raised in run() itself inside the
\* `try` block (a print() of the loop that fails is one); the handlers print
\* and go on to the `finally` block whether their print fails or not.  A
\* write_action call it cuts short after the file was touched has failed.
Interrupted ==
    /\ pc \in InLoop
    /\ pc' = LoopExit
    /\ at' = "entry"
    /\ mtime' = None
    /\ data' = None
    /\ attempt' = IF pc = "write" /\ at # "entry"
                  THEN [action |-> action, ok |-> FALSE]
                  ELSE attempt
    /\ UNCHANGED <<state, decision, running, flags, read_case, reader,
                   read_errors, action_file, error_count, world>>

\* the `finally` block up to clear_action:
\* `print("\n[Agent] Cleaning up...")`; a print that raises ends run()
FinallyPrint ==
    /\ pc = "finally"
    /\ pc' = IF stdout_open THEN "clear" ELSE "stopped"
    /\ UNCHANGED <<state, action, calls, rounding, loopvars>>

\* the `finally` block after clear_action: the statistics are read and
\* printed, and run() ends whether the prints raise or not
FinalStats ==
    /\ pc = "stats"
    /\ pc' = "stopped"
    /\ UNCHANGED <<state, action, calls, rounding, loopvars>>

\* _signal_handler on SIGINT or SIGTERM, while run() is active and stdout
\* is open: the print, then `self.running = False`
HandlerRuns ==
    /\ pc # "stopped"
    /\ stdout_open
    /\ running' = FALSE
    /\ UNCHANGED <<state, decision, pc, at, flags, read_case, reader,
                   read_errors, locals, writer, world>>

\* _signal_handler with stdout closed: its print raises ValueError before
\* `self.running = False`, at the place the signal is handled.  In run()
\* (on entry to a callee included) the exception leaves the `try` or the
\* `finally` block.
RaisedInRun ==
    /\ Closed
    /\ \/ pc \in {"loop", "decide", "finally", "stats"}
       \/ pc \in {"read", "write", "clear"} /\ at = "entry"
    /\ pc' = Raised
    /\ UNCHANGED <<state, decision, at, running, flags, read_case, reader,
                   read_errors, locals, writer, world>>

\* _signal_handler raising inside read_state: the ValueError is taken by
\* `except Exception` of read_state; inside path.exists() by pathlib, which
\* answers False; in the loops of _parse_state by
\* `except (ValueError, TypeError)`, which skips the entry being converted;
\* elsewhere in _parse_state by its `except Exception`, which prints and
\* returns None
RaisedInRead ==
    /\ Closed
    /\ pc = "read"
    /\ \/ Excepts(read_errors)
       \/ /\ at = "entry"
          /\ Missing
       \/ /\ at = "parse"
          /\ \E list \in {"enemies", "projectiles"} :
                 \E i \in 1..Len(Truncate(data[list], ListLimit(list))) :
                     data' = [data EXCEPT ![list] =
                                  Without(Truncate(@, ListLimit(list)), i)]
          /\ UNCHANGED <<state, pc, at, read_case, read_errors, mtime>>
       \/ /\ at = "parse"
          /\ IF verbose
             THEN Excepts(read_errors)
             ELSE Returns("rejected", read_errors)
    /\ UNCHANGED <<decision, running, flags, reader, writer, world>>

\* _signal_handler raising inside write_action: the ValueError is taken by
\* its `except Exception`, before the file is written or after
RaisedInWrite ==
    /\ Closed
    /\ pc \in InWrite
    /\ at \in {"entry", "done"}
    /\ at' = "except"
    /\ UNCHANGED <<state, decision, pc, running, flags, read_case, reader,
                   read_errors, locals, writer, world>>

\* a SIGINT or a SIGTERM arrives
SignalHandler ==
    \/ HandlerRuns
    \/ RaisedInRun
    \/ RaisedInRead
    \/ RaisedInWrite

\* sys.stdout is closed: from now on every print() raises ValueError
StdoutCloses ==
    /\ pc # "stopped"
    /\ stdout_open
    /\ stdout_open' = FALSE
    /\ UNCHANGED <<state, decision, pc, at, running, flags, read_case, reader,
                   read_errors, locals, writer, clock, state_file>>

\* the game writes a state file
GameWrites ==
    /\ pc # "stopped"
    /\ \E d \in FileData : state_file' = [mtime |-> clock, data |-> d]
    /\ UNCHANGED <<state, decision, pc, at, running, flags, read_case, reader,
                   read_errors, locals, writer, clock, stdout_open>>

\* the state file is removed
GameRemoves ==
    /\ pc # "stopped"
    /\ state_file # None
    /\ state_file' = None
    /\ UNCHANGED <<state, decision, pc, at, running, flags, read_case, reader,
                   read_errors, locals, writer, clock, stdout_open>>

\* STATE_TIMEOUT seconds pass
TimePasses ==
    /\ pc # "stopped"
    /\ clock < MaxClockSteps * STATE_TIMEOUT
    /\ clock' = clock + STATE_TIMEOUT
    /\ UNCHANGED <<state, decision, pc, at, running, flags, read_case, reader,
                   read_errors, locals, writer, state_file, stdout_open>>

NextLoop ==
    \/ LoopTest
    \/ ReadExists
    \/ ReadStat
    \/ ReadTime
    \/ ReadOpen
    \/ ReadParse
    \/ RunDecide
    \/ WriteFile
    \/ WriteDone
    \/ WriteExcept
    \/ SignalHandler
    \/ Interrupted
    \/ FinallyPrint
    \/ FinalStats
    \/ StdoutCloses
    \/ GameWrites
    \/ GameRemoves
    \/ TimePasses

SpecLoop == InitLoop /\ [][NextLoop]_vars

\* run() up to the `try` for the agent that `agent.py --mode rules` starts
InitRules ==
    /\ InitLoop
    /\ mode = RULE_BASED

\* The main loop of the rule-based agent.  Its behaviours are behaviours of
\* SpecLoop, so a state it reaches is a state of the program.  (Each decision
\* of a random agent is any of the 81 outcomes of _random_action, and the
\* action in hand, the action in the file and the action last attempted
\* vary independently of each other.)
SpecRules == InitRules /\ [][NextLoop]_vars

(***************************************************************************)
(* The state reader under any caller: read_state is called again and again *)
(* by a caller that does nothing else, whatever the last call returned or  *)
(* raised, while the game, the clock, the signals and stdout do as they do *)
(* in the main loop.  In `pc`, "loop" and "decide" say that the last call   *)
(* returned None or a snapshot and "finally" that it raised; `state` is     *)
(* what the last call returned.                                            *)
(***************************************************************************)
\* the reader as constructed, under either mode and with or without
\* --verbose
InitReader ==
    /\ mode \in Modes
    /\ verbose \in BOOLEAN
    /\ log_actions = FALSE
    /\ stdout_open = TRUE
    /\ rounding = NoRounding
    /\ state = None
    /\ action = None
    /\ calls = <<>>
    /\ pc = "loop"
    /\ at = "entry"
    /\ running = TRUE
    /\ clock = STATE_TIMEOUT
    /\ state_file = None
    /\ action_file = None
    /\ last_mtime = 0
    /\ last_frame = -1
    /\ cached_state = None
    /\ read_errors = 0
    /\ read_case = "none"
    /\ mtime = None
    /\ data = None
    /\ attempt = None
    /\ error_count = 0

\* `self.state_reader.read_state()` is called
CallRead ==
    /\ pc \in {"loop", "decide", "finally"}
    /\ pc' = "read"
    /\ read_case' = "none"
    /\ UNCHANGED <<state, decision, at, running, flags, reader, read_errors,
                   locals, writer, world>>

NextReader ==
    \/ CallRead
    \/ ReadExists
    \/ ReadStat
    \/ ReadTime
    \/ ReadOpen
    \/ ReadParse
    \/ HandlerRuns
    \/ RaisedInRun
    \/ RaisedInRead
    \/ StdoutCloses
    \/ GameWrites
    \/ GameRemoves
    \/ TimePasses

SpecReader == InitReader /\ [][NextReader]_vars

(***************************************************************************)
(* Properties of the decision.                                             *)
(***************************************************************************)
Ternary == {-1, 0, 1}

ZeroDecision == [move_x |-> 0, move_y |-> 0, shoot_x |-> 0, shoot_y |-> 0]

\* the engine has been asked for a decision
EngineDone == pc = "done" /\ mode = RULE_BASED

\* the engine has made a decision for a snapshot that has a player
Decided == EngineDone /\ ~ NoState(state)

\* what the four sub-components return for the current snapshot
DodgeResult == dodge_projectiles(state.player, state.projectiles, rounding)

AvoidResult == avoid_enemies(state.player, state.enemies, rounding)

AttackResult == attack_nearest(state.player, state.enemies, rounding)

ApproachResult == approach_enemies(state.player, state.enemies)

\* C1: every component of the returned Action is -1, 0 or 1.
C1_AxesTernary ==
    EngineDone =>
        /\ action.move_x \in Ternary
        /\ action.move_y \in Ternary
        /\ action.shoot_x \in Ternary
        /\ action.shoot_y \in Ternary

\* a decision that moves and shoots
C1_Witness ==
    /\ Decided
    /\ action.move_x = 1
    /\ action.shoot_y = 1

\* C2: without a snapshot, or without a player in it, the decision is the
\* zero decision whatever the enemy and projectile lists hold, and none of the
\* four sub-components is evaluated.
C2_NoPlayerNoOp ==
    EngineDone /\ NoState(state) => action = ZeroDecision /\ calls = <<>>

\* a decided snapshot without a player whose lists are not empty
C2_Witness ==
    /\ EngineDone
    /\ state # None
    /\ state.player = None
    /\ state.enemies # <<>>
    /\ state.projectiles # <<>>
    /\ action = ZeroDecision

\* C3: the movement is the Threat Assessor's if it fires, else the Contact
\* Avoider's if it fires, else the Approach Planner's if it fires, else (0,0).
C3_MovePriority ==
    Decided =>
        LET dodge == DodgeResult
            avoid == AvoidResult
            approach == ApproachResult
            chosen ==
                IF dodge # None THEN dodge
                ELSE IF avoid # None THEN avoid
                ELSE IF approach # None THEN approach
                ELSE ZeroDecision
        IN  action.move_x = chosen.move_x /\ action.move_y = chosen.move_y

\* no dodge; the avoidance and the approach both fire and disagree, and the
\* decision moves as the avoidance says
C3_Witness ==
    /\ Decided
    /\ DodgeResult = None
    /\ AvoidResult # None
    /\ ApproachResult # None
    /\ AvoidResult # ApproachResult
    /\ action.move_x = AvoidResult.move_x
    /\ action.move_y = AvoidResult.move_y

\* C4: in every branch the aim is the Target Selector's result, or (0,0)
\* when it returns nothing.
C4_AimFromSelector ==
    Decided =>
        /\ action.shoot_x = (IF AttackResult # None THEN AttackResult.shoot_x ELSE 0)
        /\ action.shoot_y = (IF AttackResult # None THEN AttackResult.shoot_y ELSE 0)

\* a decision that dodges and still aims at the selected enemy
C4_Witness ==
    /\ Decided
    /\ DodgeResult # None
    /\ AttackResult # None
    /\ action.shoot_x = AttackResult.shoot_x
    /\ action.shoot_y = AttackResult.shoot_y
    /\ action.move_y = DodgeResult.move_y
    /\ action.move_y # 0

IsHostile(proj) == proj.is_hostile

\* the snapshot without its non-hostile projectiles
HostileOnly(st) == [st EXCEPT !.projectiles = SelectSeq(@, IsHostile)]

\* C5: the decision is the decision for the snapshot stripped of its
\* non-hostile projectiles (so two snapshots that differ only in those get the
\* same decision), and projectiles that are all non-hostile produce no dodge.
C5_FriendlyIgnored ==
    Decided =>
        /\ action = decide_action(HostileOnly(state), rounding).action
        /\ (\A i \in 1..Len(state.projectiles) : ~ state.projectiles[i].is_hostile)
               => DodgeResult = None

\* a non-hostile projectile that would be dodged if it were hostile, and no
\* dodge
C5_Witness ==
    /\ Decided
    /\ \E i \in 1..Len(state.projectiles) :
           /\ ~ state.projectiles[i].is_hostile
           /\ CandidateAnyOwner(state.player, state.projectiles[i], rounding)
           /\ ~ AboveCeiling(state.player, state.projectiles[i], rounding)
    /\ DodgeResult = None
    /\ action.move_x = 0
    /\ action.move_y = 0

\* index of the projectile dodged in the current snapshot (0: none)
Dodged == MostDangerous(state.player, state.projectiles, rounding)

\* the continuous vectors the four quantizations start from (each up to a
\* positive factor), for the current snapshot
DodgeSource == DodgeVector(state.player, state.projectiles[Dodged], rounding)

AimSource == AimVector(state.player, state.enemies[FirstInRange(state.enemies, 1)])

ApproachSource == ApproachVector(state.player, state.enemies[1])

AvoidSource == AvoidVector(state.player, state.enemies)

IsTie(v) == Abs(v[1]) = Abs(v[2])

\* the avoidance vector and the aim, as computed, have |x| = |y|: the exact
\* values have, and rounding has not put the x component above
AvoidIsTie ==
    /\ IsTie(AvoidSource)
    /\ ~ (AvoidAxisTied(state.player, state.enemies) /\ rounding.avoid_x)

AimIsTie ==
    /\ IsTie(AimSource)
    /\ ~ (/\ AimAxisTied(state.player, state.enemies[FirstInRange(state.enemies, 1)])
          /\ state.enemies[FirstInRange(state.enemies, 1)] \in rounding.aim_x)

\* the pure X vector of sign(x) when towardX, else the pure Y vector of sign(y)
TieResult(towardX, v) ==
    IF towardX THEN <<Sign1(v[1]), 0>> ELSE <<0, Sign1(v[2])>>

\* every quantization of a vector with |x| = |y| returns TieResult
TiesResolve(towardX) ==
    LET dodge == DodgeResult
        avoid == AvoidResult
        attack == AttackResult
        approach == ApproachResult
    IN  /\ dodge # None =>
               LET v == DodgeSource
               IN  IsTie(v) => <<dodge.move_x, dodge.move_y>> = TieResult(towardX, v)
        /\ avoid # None =>
               LET v == AvoidSource
               IN  IsTie(v) /\ AvoidIsTie =>
                       <<avoid.move_x, avoid.move_y>> = TieResult(towardX, v)
        /\ attack # None =>
               LET v == AimSource
               IN  IsTie(v) /\ AimIsTie =>
                       <<attack.shoot_x, attack.shoot_y>> = TieResult(towardX, v)
        /\ approach # None =>
               LET v == ApproachSource
               IN  IsTie(v) =>
                       <<approach.move_x, approach.move_y>> = TieResult(towardX, v)

\* C6 as stated: when |x| = |y| the result is the pure X vector of sign(x).
C6_TiesTowardX == Decided => TiesResolve(TRUE)

\* C6 as the code has it: when |x| = |y| the result is the pure Y vector of
\* sign(y) and the X component is 0; X wins only when |x| > |y|.
C6_TiesTowardY == Decided => TiesResolve(FALSE)

\* the dodge and the aim are both quantized from a tie
C6_Witness ==
    /\ Decided
    /\ DodgeResult # None
    /\ IsTie(DodgeSource)
    /\ AttackResult # None
    /\ AimIsTie
    /\ action.move_x = 0
    /\ action.move_y # 0
    /\ action.shoot_x = 0
    /\ action.shoot_y # 0

MirrorEntity(e) == [e EXCEPT !.x = -@, !.vx = -@]

RECURSIVE MirrorAll(_)
MirrorAll(seq) ==
    IF seq = <<>> THEN <<>>
    ELSE <<MirrorEntity(Head(seq))>> \o MirrorAll(Tail(seq))

\* the snapshot mirrored in the line x = 0
Mirror(st) ==
    [st EXCEPT !.enemies = MirrorAll(@), !.projectiles = MirrorAll(@)]

\* C7: for a player at x = 0, the decision for the mirrored snapshot is the
\* decision with move_x and shoot_x negated and move_y and shoot_y unchanged.
\* (checked where rounding decides no comparison of either decision)
C7_MirrorSymmetry ==
    (/\ Decided
     /\ state.player.x = 0
     /\ Roundings(state) = {NoRounding}
     /\ Roundings(Mirror(state)) = {NoRounding})
    =>  decide_action(Mirror(state), NoRounding).action
            = [move_x |-> -action.move_x, move_y |-> action.move_y,
               shoot_x |-> -action.shoot_x, shoot_y |-> action.shoot_y]

\* C8: an enemy at exactly attack_range is selected (when no earlier enemy
\* is in range), and a hostile, approaching, moving projectile at exactly
\* dodge_radius is a candidate of the threat scan.
C8_InclusiveThresholds ==
    Decided =>
        /\ \A i \in 1..Len(state.enemies) :
               /\ state.enemies[i].distance = ATTACK_RANGE * DistScale
               /\ \A j \in 1..(i - 1) :
                      state.enemies[j].distance > ATTACK_RANGE * DistScale
               => /\ FirstInRange(state.enemies, 1) = i
                  /\ AttackResult = AimAt(state.player, state.enemies[i], rounding)
        /\ \A i \in 1..Len(state.projectiles) :
               /\ state.projectiles[i].is_hostile
               /\ state.projectiles[i].distance = DODGE_DISTANCE * DistScale
               /\ Speed2(state.projectiles[i]) > 0
               /\ DirLen2(state.player, state.projectiles[i]) > 0
               /\ DotNum(state.player, state.projectiles[i]) > 0
               => /\ Candidate(state.player, state.projectiles[i], rounding)
                  /\ ScanThreats(state.player, state.projectiles, 1, 0, rounding) # 0

\* the enemy aimed at stands at exactly attack_range, and the projectile
\* dodged is at exactly dodge_radius
C8_Witness ==
    /\ Decided
    /\ FirstInRange(state.enemies, 1) # 0
    /\ state.enemies[FirstInRange(state.enemies, 1)].distance
           = ATTACK_RANGE * DistScale
    /\ action.shoot_x # 0
    /\ Dodged # 0
    /\ state.projectiles[Dodged].distance = DODGE_DISTANCE * DistScale
    /\ action.move_y # 0

\* C9: a dodge is across the selected projectile's velocity: |vx| > |vy|
\* gives a move on the Y axis only, |vy| > |vx| a move on the X axis only.
C9_DodgePerpendicular ==
    Decided =>
        LET best == Dodged
        IN  best # 0 =>
                LET proj == state.projectiles[best]
                IN  /\ Abs(proj.vx) > Abs(proj.vy) =>
                           action.move_x = 0 /\ action.move_y \in {-1, 1}
                    /\ Abs(proj.vy) > Abs(proj.vx) =>
                           action.move_y = 0 /\ action.move_x \in {-1, 1}

\* the example: player at the origin, no enemies, one hostile projectile at
\* distance 10 flying at it with velocity (100, 0); the move is on Y only
C9_Witness ==
    /\ EngineDone
    /\ state = GameState(Origin, <<>>,
                   <<ProjectileState(Origin, <<-10, 0>>, <<100, 0>>,
                                     10 * DistScale, TRUE)>>)
    /\ action.move_x = 0
    /\ action.move_y \in {-1, 1}

\* the indices of the enemies within attack range
Qualifying == {i \in 1..Len(state.enemies) :
                  state.enemies[i].distance <= ATTACK_RANGE * DistScale}

\* C10: the aim is computed from the lowest-index enemy whose distance is
\* <= attack_range, whatever the order of the list, and there is no aim when
\* no enemy qualifies.
C10_FirstQualifying ==
    Decided =>
        IF Qualifying = {}
        THEN AttackResult = None /\ action.shoot_x = 0 /\ action.shoot_y = 0
        ELSE LET k == CHOOSE i \in Qualifying : \A j \in Qualifying : i <= j
                 aim == AimAt(state.player, state.enemies[k], rounding)
             IN  /\ AttackResult = aim
                 /\ action.shoot_x = (IF aim # None THEN aim.shoot_x ELSE 0)
                 /\ action.shoot_y = (IF aim # None THEN aim.shoot_y ELSE 0)

\* the first qualifying enemy is farther than a later one that would be aimed
\* at differently, and the aim is the first one's
C10_Witness ==
    /\ Decided
    /\ \E k, j \in Qualifying :
           /\ \A i \in Qualifying : k <= i
           /\ k < j
           /\ state.enemies[j].distance < state.enemies[k].distance
           /\ AimAt(state.player, state.enemies[k], rounding) # None
           /\ AimAt(state.player, state.enemies[j], rounding) # None
           /\ AimAt(state.player, state.enemies[k], rounding)
                  # AimAt(state.player, state.enemies[j], rounding)
           /\ action.shoot_x = AimAt(state.player, state.enemies[k], rounding).shoot_x
           /\ action.shoot_y = AimAt(state.player, state.enemies[k], rounding).shoot_y

\* the filters of the scan for projectile i of the snapshot, written out; the
\* least distance let through is any distance above 0 when aboveZero, and
\* 1 otherwise; the dot product is positive as the code computes it, which
\* where it is exactly 0 may be on either side of 0
PassesFilters(aboveZero, i) ==
    LET proj == state.projectiles[i]
        dx == state.player.x - proj.x
        dy == state.player.y - proj.y
    IN  /\ proj.is_hostile
        /\ IF aboveZero THEN proj.distance > 0 ELSE proj.distance >= 1 * DistScale
        /\ proj.distance <= DODGE_DISTANCE * DistScale
        /\ (proj.vx * proj.vx + proj.vy * proj.vy) * 100 >= 1
        /\ (dx * dx + dy * dy) * 100 >= 1
        /\ \/ dx * proj.vx + dy * proj.vy > 0
           \/ /\ dx * proj.vx + dy * proj.vy = 0
              /\ DotInexact(state.player, proj)
              /\ proj \in rounding.dot_up

\* the candidates of the scan are exactly the projectiles that pass the
\* filters, and the scan selects one exactly when there is a candidate
CandidatesAre(aboveZero) ==
    /\ \A i \in 1..Len(state.projectiles) :
           Candidate(state.player, state.projectiles[i], rounding)
               <=> PassesFilters(aboveZero, i)
    /\ ScanThreats(state.player, state.projectiles, 1, 0, rounding) # 0
           <=> \E i \in 1..Len(state.projectiles) : PassesFilters(aboveZero, i)

\* C12 as stated: a hostile projectile is a candidate exactly when
\* 0 < distance <= dodge_radius, its speed and the direction to the player are
\* not below the epsilon, and it flies toward the player; so one at a distance
\* strictly between 0 and 1 is a candidate.
C12_CandidateAboveZero == Decided => CandidatesAre(TRUE)

\* C12 as the code has it: a hostile projectile is a candidate exactly when
\* 1 <= distance <= dodge_radius, its speed and the direction to the player
\* are not below the epsilon, and it flies toward the player; one at a distance
\* strictly between 0 and 1 is skipped.
C12_CandidateFromOne == Decided => CandidatesAre(FALSE)

\* a hostile approaching projectile at distance 0.5 is passed over, and the
\* one behind it at distance exactly 1 is the one dodged
C12_Witness ==
    /\ Decided
    /\ Len(state.projectiles) = 2
    /\ state.projectiles[1].is_hostile
    /\ state.projectiles[1].distance = 1
    /\ DotNum(state.player, state.projectiles[1]) > 0
    /\ ~ Candidate(state.player, state.projectiles[1], rounding)
    /\ state.projectiles[2].distance = MinDodgeDist * DistScale
    /\ Dodged = 2
    /\ action.move_x # 0 \/ action.move_y # 0

\* distance / speed > 4.0 for a projectile (a projectile that does not move
\* never arrives)
ImpactBeyondFour(proj) ==
    proj.distance * proj.distance > 16 * DistScale * DistScale * Speed2(proj)

\* C13: for every candidate the dot factor of the threat score lies in
\* [0,1], so the score is not negative and lies between time_to_impact/2 and
\* time_to_impact; and there is no dodge when every hostile projectile has
\* distance/speed greater than 4.0.
C13_DotWithinUnit ==
    Decided =>
        /\ \A i \in 1..Len(state.projectiles) :
               Candidate(state.player, state.projectiles[i], rounding) =>
                   LET proj == state.projectiles[i]
                       dot == DotNum(state.player, proj)
                   IN  /\ dot >= 0
                       /\ dot * dot <= DirLen2(state.player, proj)
                       /\ ThreatNum(state.player, proj) >= 0
                       /\ ThreatNum(state.player, proj)
                              >= proj.distance * DirLen(state.player, proj)
                       /\ ThreatNum(state.player, proj)
                              <= 2 * proj.distance * DirLen(state.player, proj)
        /\ (\A i \in 1..Len(state.projectiles) :
                state.projectiles[i].is_hostile
                    => ImpactBeyondFour(state.projectiles[i]))
               => DodgeResult = None

\* the decision's movement is the Approach Planner's
MovesByApproach ==
    /\ DodgeResult = None
    /\ AvoidResult = None
    /\ ApproachResult # None
    /\ action.move_x = ApproachResult.move_x
    /\ action.move_y = ApproachResult.move_y

\* C14: the Approach Planner returns nothing whenever the first enemy is
\* within attack range, the range itself included, or beyond approach_range; so
\* the decision holds no approach movement toward the first enemy on a tick
\* where the Target Selector selects that enemy.
C14_NoApproachInRange ==
    Decided /\ state.enemies # <<>> =>
        /\ \/ state.enemies[1].distance <= ATTACK_RANGE * DistScale
           \/ state.enemies[1].distance > APPROACH_RANGE * DistScale
           => ApproachResult = None
        /\ FirstInRange(state.enemies, 1) = 1 => ~ MovesByApproach

\* the indices of the enemies with 0 < distance < avoid_radius
AvoidBand == {i \in 1..Len(state.enemies) :
                 /\ state.enemies[i].distance > 0
                 /\ state.enemies[i].distance < AVOID_DISTANCE * DistScale}

\* C15: the Contact Avoider returns a movement only if some enemy has
\* 0 < distance < avoid_radius; and when exactly one enemy is in that band and
\* the weighted enemy-to-player vector is not negligible, the movement is along
\* the dominant axis of the enemy-to-player vector, with the sign of that
\* component, so it points away from the enemy.
C15_AvoidAway ==
    Decided =>
        /\ AvoidResult # None => AvoidBand # {}
        /\ Cardinality(AvoidBand) = 1 =>
               LET e == state.enemies[CHOOSE i \in AvoidBand : TRUE]
                   dx == state.player.x - e.x
                   dy == state.player.y - e.y
                   den == IF e.distance > DistScale THEN e.distance ELSE DistScale
                   len2 == (dx * dx + dy * dy) * DistScale * DistScale * 100
               IN  (len2 > den * den \/ (len2 = den * den /\ ~ rounding.avoid_below))
                   =>
                       /\ AvoidResult # None
                       /\ IF Abs(dx) > Abs(dy)
                          THEN /\ AvoidResult.move_x = (IF dx > 0 THEN 1 ELSE -1)
                               /\ AvoidResult.move_y = 0
                          ELSE /\ AvoidResult.move_x = 0
                               /\ AvoidResult.move_y = (IF dy > 0 THEN 1 ELSE -1)
                       /\ AvoidResult.move_x * dx + AvoidResult.move_y * dy > 0

\* an enemy at exactly the avoid distance and one at distance 5 up and to the
\* left: only the second counts, and the decision moves down, away from it
C15_Witness ==
    /\ Decided
    /\ Len(state.enemies) = 2
    /\ state.enemies[1].distance = AVOID_DISTANCE * DistScale
    /\ state.enemies[1].x - state.player.x = AVOID_DISTANCE
    /\ AvoidBand = {2}
    /\ state.enemies[2].x - state.player.x = -3
    /\ state.enemies[2].y - state.player.y = 4
    /\ DodgeResult = None
    /\ AvoidResult # None
    /\ action.move_x = 0
    /\ action.move_y = -1

\* exactly one of the two components is not 0
OneAxis(x, y) == (x # 0 /\ y = 0) \/ (x = 0 /\ y # 0)

\* C16: in every decision at most one of move_x and move_y and at most one
\* of shoot_x and shoot_y is not 0, and every sub-component that fires returns
\* a vector with exactly one nonzero axis, never the zero vector.
C16_NoDiagonal ==
    Decided =>
        LET dodge == DodgeResult
            avoid == AvoidResult
            attack == AttackResult
            approach == ApproachResult
        IN  /\ action.move_x = 0 \/ action.move_y = 0
            /\ action.shoot_x = 0 \/ action.shoot_y = 0
            /\ dodge # None => OneAxis(dodge.move_x, dodge.move_y)
            /\ avoid # None => OneAxis(avoid.move_x, avoid.move_y)
            /\ attack # None => OneAxis(attack.shoot_x, attack.shoot_y)
            /\ approach # None => OneAxis(approach.move_x, approach.move_y)

\* the dodge, the aim and the approach all fire, each from a vector with
\* |x| = |y|, and the decision moves on one axis and shoots on one axis
C16_Witness ==
    /\ Decided
    /\ DodgeResult # None
    /\ AttackResult # None
    /\ ApproachResult # None
    /\ IsTie(DodgeSource)
    /\ AimIsTie
    /\ IsTie(ApproachSource)
    /\ OneAxis(action.move_x, action.move_y)
    /\ OneAxis(action.shoot_x, action.shoot_y)

(***************************************************************************)
(* Properties of the main loop.                                            *)
(***************************************************************************)
\* the paths of read_state on which the file gave nothing: it is missing, has
\* the modification time of the previous read, is older than STATE_TIMEOUT, or
\* does not decode
NothingRead == {"missing", "unchanged", "stale", "corrupt"}

\* C11: on a tick where the state file is unchanged since the previous
\* read, stale, missing or corrupted, read_state returns None, and the loop
\* neither invokes the decision engine nor writes an action for that tick.
C11_NoStateNoDecision ==
    read_case \in NothingRead =>
        /\ state = None
        /\ pc \notin {"decide", "write"}

\* C17: the cached snapshot is replaced only in a read_state call, by the
\* snapshot parsed from the file, whose frame is above last_frame; last_frame
\* never decreases; the frame of a cached snapshot is last_frame; and the
\* frames of the snapshots that successive read_state calls return do not
\* decrease.
C17_FramesMonotone ==
    [][/\ cached_state' # cached_state =>
              /\ pc = "read"
              /\ at = "parse"
              /\ data # None
              /\ cached_state' = parse_state(data)
              /\ cached_state' # None
              /\ cached_state'.frame > last_frame
       /\ last_frame' >= last_frame
       /\ cached_state' # None => cached_state'.frame = last_frame'
       /\ pc = "read" /\ state # None => state' # None /\ state'.frame >= state.frame
      ]_vars

\* a snapshot of the highest frame is cached, and a file holding a valid
\* snapshot of a lower frame has just been read and turned down
C17_Witness ==
    /\ read_case = "rejected"
    /\ cached_state # None
    /\ cached_state.frame = MaxFrame
    /\ last_frame = MaxFrame
    /\ state = cached_state
    /\ state_file # None
    /\ state_file.mtime = last_mtime
    /\ state_file.data # Corrupt
    /\ state_file.data.player # None
    /\ state_file.data.frame < MaxFrame

\* C18: when run() has ended, the last action it tried to write is the
\* zero action, written by the `finally` block; nothing is written after it;
\* and if that write succeeded the action file holds the zero action.
\* (Violated: with stdout closed the print that opens the `finally` block
\* raises before clear_action is reached.)
C18_ZeroActionLast ==
    [][/\ pc' = "stopped" =>
              /\ attempt' # None
              /\ attempt'.action = ZeroDecision
              /\ attempt'.ok => action_file' = ZeroDecision
       /\ pc # "stopped" /\ pc' = "stopped" => pc \in {"finally", "clear", "stats"}
       /\ pc = "stopped" => attempt' = attempt /\ action_file' = action_file
      ]_vars

====
